---- MODULE Spec2Model ----
(***************************************************************************)
(* Ledger Management System (src/app.py): the balance engine               *)
(* calculate_balance_and_type, the spreadsheet exporter                    *)
(* create_excel_download, and the session handlers of main().              *)
(*                                                                         *)
(* Amounts are whole numbers held in float64 columns; text is a string.    *)
(* The rupee sign of the column titles is written "R" (one character).     *)
(***************************************************************************)
EXTENDS Integers, Sequences, FiniteSets, TLC

VARIABLES
    ledger_data,      \* st.session_state.ledger_data: a sequence of rows
    initial_balance,  \* st.session_state.initial_balance
    message,          \* what the last script run reported: "", "success", "error"
    handler,          \* the handler the last script run executed
    df,               \* argument of a direct call of one of the two functions
    bal,              \* its initial_balance argument
    out,              \* the table calculate_balance_and_type returned
    excel,            \* the worksheet create_excel_download built
    pc                \* position of a direct call: "start", "done"

vars == <<ledger_data, initial_balance, message, handler, df, bal, out, excel, pc>>

(***************************************************************************)
(* Bounds of the model.                                                    *)
(***************************************************************************)
MaxRows == 3      \* rows of a table handed to calculate_balance_and_type
MaxSheet == 2     \* rows of a table handed to create_excel_download
MaxLedger == 3    \* rows of the session ledger
MaxUpload == 2    \* rows of an uploaded file

(***************************************************************************)
(* Cell values: what a DataFrame cell or a worksheet cell holds.           *)
(***************************************************************************)
Float(n) == [kind |-> "float", num |-> n, str |-> ""]
Text(s) == [kind |-> "str", num |-> 0, str |-> s]
Timestamp(d) == [kind |-> "date", num |-> d, str |-> ""]
NaN == [kind |-> "nan", num |-> 0, str |-> ""]
NaT == [kind |-> "nat", num |-> 0, str |-> ""]
None == [kind |-> "none", num |-> 0, str |-> ""]

\* pd.notna
notna(v) == v.kind \notin {"nan", "nat", "none"}

\* value > 0 for a cell of a numeric column; NaN > 0 is False
gt0(v) == v.kind = "float" /\ v.num > 0

\* The spellings float() accepts, among the texts of the model.
NumericText == {"200", "500", "-200"}

float(s) == CASE s = "200" -> 200 [] s = "500" -> 500 [] s = "-200" -> -200

\* pd.to_numeric(x, errors='coerce') on one cell: a number stays, a numeric
\* spelling is parsed, everything else becomes NaN.
to_numeric(v) ==
    IF v.kind = "float" THEN v
    ELSE IF v.kind = "str" /\ v.str \in NumericText THEN Float(float(v.str))
    ELSE NaN

\* The mutant of fillna: the fill is forgotten.
fillna_forgotten(v, fill) == v

\* Series.fillna(fill) on one cell
fillna(v, fill) == IF v.kind = "nan" THEN Float(fill) ELSE v

(***************************************************************************)
(* calculate_balance_and_type                                              *)
(***************************************************************************)
\* The mutant of apply_row: credit is tested before debit.
apply_row_credit_first(current_balance, dr_amount, cr_amount) ==
    IF cr_amount > 0
    THEN [balance |-> current_balance + cr_amount, type |-> "Cr"]
    ELSE IF dr_amount > 0
    THEN [balance |-> current_balance - dr_amount, type |-> "Dr"]
    ELSE [balance |-> current_balance, type |-> ""]

\* The mutant of apply_row: a row that is neither debit nor credit resets
\* the running balance to the column's initial 0.0.
apply_row_reset(current_balance, dr_amount, cr_amount) ==
    IF dr_amount > 0
    THEN [balance |-> current_balance - dr_amount, type |-> "Dr"]
    ELSE IF cr_amount > 0
    THEN [balance |-> current_balance + cr_amount, type |-> "Cr"]
    ELSE [balance |-> 0, type |-> ""]

\* One pass of the loop body: the new current_balance and the type.
apply_row(current_balance, dr_amount, cr_amount) ==
    IF dr_amount > 0
    THEN [balance |-> current_balance - dr_amount, type |-> "Dr"]
    ELSE IF cr_amount > 0
    THEN [balance |-> current_balance + cr_amount, type |-> "Cr"]
    ELSE [balance |-> current_balance, type |-> ""]

\* The two amount columns made numeric.
coerce_amount(v) == fillna(to_numeric(v), 0)

RECURSIVE balance_loop(_, _, _, _)
\* for idx in range(len(df)): rows 1..idx-1 are in acc, the running balance
\* is current_balance.
balance_loop(table, idx, current_balance, acc) ==
    IF idx > Len(table) THEN acc
    ELSE LET row == table[idx]
             dr == coerce_amount(row.Dr)
             cr == coerce_amount(row.Cr)
             step == apply_row(current_balance, dr.num, cr.num)
         IN balance_loop(table, idx + 1, step.balance,
                Append(acc, [Date |-> row.Date,
                             Particulars |-> row.Particulars,
                             CF |-> row.CF,
                             Dr |-> dr,
                             Cr |-> cr,
                             Balance |-> Float(step.balance),
                             Type |-> Text(step.type)]))

calculate_balance_and_type(table, initial) ==
    balance_loop(table, 1, initial, <<>>)

(***************************************************************************)
(* Direct calls of calculate_balance_and_type on every small table.        *)
(***************************************************************************)
DrInputs == {Text("abc"), NaN, Float(0), Float(200), Float(-200)}
CrInputs == {Text("abc"), Text("500"), Float(0), Float(500), Float(-500)}
Balances == {0, 1000}

RawRows ==
    {[Date |-> Timestamp(1), Particulars |-> Text("item"), CF |-> Text(""),
      Dr |-> d, Cr |-> c] : d \in DrInputs, c \in CrInputs}

SeqsUpTo(S, n) == UNION {[1..k -> S] : k \in 0..n}

Idle ==
    /\ ledger_data = <<>>
    /\ initial_balance = 0
    /\ message = ""
    /\ handler = "none"

InitCalc ==
    /\ Idle
    /\ df \in SeqsUpTo(RawRows, MaxRows)
    /\ bal \in Balances
    /\ out = <<>>
    /\ excel = <<>>
    /\ pc = "start"

Calculate ==
    /\ pc = "start"
    /\ out' = calculate_balance_and_type(df, bal)
    /\ pc' = "done"
    /\ UNCHANGED <<ledger_data, initial_balance, message, handler, df, bal, excel>>

NextCalc == Calculate

SpecCalc == InitCalc /\ [][NextCalc]_vars

(***************************************************************************)
(* Properties of calculate_balance_and_type (under SpecCalc).              *)
(***************************************************************************)
RECURSIVE SumTo(_, _)
\* the sum of f[1..n]
SumTo(f, n) == IF n = 0 THEN 0 ELSE f[n] + SumTo(f, n - 1)

DrOf(table) == [i \in 1..Len(table) |-> table[i].Dr.num]
CrOf(table) == [i \in 1..Len(table) |-> table[i].Cr.num]

\* the balance before row i
PrevBalance(table, initial, i) ==
    IF i = 1 THEN initial ELSE table[i - 1].Balance.num

\* every amount of the table is a number >= 0 (the data model's amounts)
NonNegative(table) ==
    \A i \in 1..Len(table) : table[i].Dr.num >= 0 /\ table[i].Cr.num >= 0

\* C1 (as stated, over non-negative amounts): the balance recorded on the
\* last row is the opening balance plus the sum of all credit amounts minus
\* the sum of all debit amounts, rows with both amounts positive included.
C1_FinalBalanceIsNetSum ==
    (pc = "done" /\ Len(out) > 0 /\ NonNegative(out)) =>
        out[Len(out)].Balance.num =
            bal + SumTo(CrOf(out), Len(out)) - SumTo(DrOf(out), Len(out))

\* C2 (as stated): type is Dr iff debit > 0; Cr iff debit = 0 and
\* credit > 0; the empty label in every other case.
C2_TypeAsStated ==
    pc = "done" =>
        \A i \in 1..Len(out) :
            /\ (out[i].Type = Text("Dr")) <=> (out[i].Dr.num > 0)
            /\ (out[i].Type = Text("Cr")) <=>
                   (out[i].Dr.num = 0 /\ out[i].Cr.num > 0)
            /\ (~(out[i].Dr.num > 0) /\ ~(out[i].Dr.num = 0 /\ out[i].Cr.num > 0))
                   => out[i].Type = Text("")

\* C2 (amended): type is Dr iff debit > 0; Cr iff debit is not > 0 (zero or
\* negative) and credit > 0; the empty label in every other case. Debit is
\* tested first: a row with both amounts positive is Dr.
C2_TypeByFirstPositive ==
    pc = "done" =>
        \A i \in 1..Len(out) :
            /\ (out[i].Type = Text("Dr")) <=> (out[i].Dr.num > 0)
            /\ (out[i].Type = Text("Cr")) <=>
                   (~(out[i].Dr.num > 0) /\ out[i].Cr.num > 0)
            /\ (~(out[i].Dr.num > 0) /\ ~(out[i].Cr.num > 0))
                   => out[i].Type = Text("")

\* C2 witness: a computed table holding a row with both amounts positive
\* (tagged Dr), a row with a negative debit and a positive credit (tagged Cr)
\* and a row with neither amount positive.
C2_Witness ==
    /\ pc = "done"
    /\ \E i \in 1..Len(out) :
           out[i].Dr.num > 0 /\ out[i].Cr.num > 0 /\ out[i].Type = Text("Dr")
    /\ \E i \in 1..Len(out) :
           out[i].Dr.num < 0 /\ out[i].Cr.num > 0 /\ out[i].Type = Text("Cr")
    /\ \E i \in 1..Len(out) :
           out[i].Dr.num = 0 /\ out[i].Cr.num = 0 /\ out[i].Type = Text("")

\* C3: as many rows out as in, in the same order, and the balance of row i
\* is the balance before it minus its debit if debit > 0, else plus its
\* credit if credit > 0, else unchanged.
C3_RunningBalance ==
    pc = "done" =>
        /\ Len(out) = Len(df)
        /\ \A i \in 1..Len(out) :
            LET prev == PrevBalance(out, bal, i)
                dr == out[i].Dr.num
                cr == out[i].Cr.num
            IN /\ out[i].Date = df[i].Date
               /\ out[i].Particulars = df[i].Particulars
               /\ out[i].CF = df[i].CF
               /\ out[i].Dr = coerce_amount(df[i].Dr)
               /\ out[i].Cr = coerce_amount(df[i].Cr)
               /\ out[i].Balance.kind = "float"
               /\ out[i].Balance.num =
                      IF dr > 0 THEN prev - dr
                      ELSE IF cr > 0 THEN prev + cr
                      ELSE prev

\* C3 witness: the example: opening 1000, rows (dr 0, cr 500), (dr 200, cr 0),
\* (dr 0, cr 0) give balances 1500, 1300, 1300 and types Cr, Dr, none.
C3_Witness ==
    /\ pc = "done"
    /\ bal = 1000
    /\ Len(df) = 3
    /\ <<df[1].Dr, df[1].Cr>> = <<Float(0), Float(500)>>
    /\ <<df[2].Dr, df[2].Cr>> = <<Float(200), Float(0)>>
    /\ <<df[3].Dr, df[3].Cr>> = <<Float(0), Float(0)>>
    /\ <<out[1].Balance, out[2].Balance, out[3].Balance>> =
           <<Float(1500), Float(1300), Float(1300)>>
    /\ <<out[1].Type, out[2].Type, out[3].Type>> =
           <<Text("Cr"), Text("Dr"), Text("")>>

\* a debit or credit field that is blank or non-numeric text
Malformed(v) == v.kind = "nan" \/ (v.kind = "str" /\ v.str \notin NumericText)

\* C10: a malformed debit or credit field counts as 0: the computed table is
\* the one computed with that field replaced by the number 0, on that row
\* and on every later row, whatever the opening balance and the other rows.
C10_MalformedIsZero ==
    pc = "done" =>
        /\ Len(out) = Len(df)
        /\ \A i \in 1..Len(df) :
            /\ Malformed(df[i].Dr) =>
                   out = calculate_balance_and_type(
                             [df EXCEPT ![i].Dr = Float(0)], bal)
            /\ Malformed(df[i].Cr) =>
                   out = calculate_balance_and_type(
                             [df EXCEPT ![i].Cr = Float(0)], bal)

\* C10 witness: a row with non-numeric text as debit and a valid credit
\* (here spelled as text) was computed as a credit row, followed by a row.
C10_Witness ==
    /\ pc = "done"
    /\ \E i \in 1..(Len(df) - 1) :
           /\ df[i].Dr = Text("abc")
           /\ df[i].Cr \in {Float(500), Text("500")}
           /\ out[i].Type = Text("Cr")
           /\ out[i].Balance.num = PrevBalance(out, bal, i) + 500

(***************************************************************************)
(* create_excel_download                                                   *)
(***************************************************************************)
headers ==
    <<"Date", "Particulars", "C/F", "Dr Amount (R)", "Cr Amount (R)",
      "Balance (R)", "Type (Dr/Cr)">>

MaxWidth == 50

Max(S) == CHOOSE x \in S : \A y \in S : y <= x
Min2(a, b) == IF a <= b THEN a ELSE b

RECURSIVE Digits(_)
\* the number of decimal digits of n >= 0
Digits(n) == IF n < 10 THEN 1 ELSE 1 + Digits(n \div 10)

\* len(str(cell.value)): an empty cell reads "None", a float "<digits>.0",
\* a Timestamp "YYYY-MM-DD HH:MM:SS", NaN "nan", NaT "NaT".
len_str(v) ==
    CASE v.kind = "none" -> 4
      [] v.kind = "str" -> Len(v.str)
      [] v.kind = "float" ->
             (IF v.num < 0 THEN 1 + Digits(-v.num) ELSE Digits(v.num)) + 2
      [] v.kind = "date" -> 19
      [] v.kind = "nan" -> 3
      [] v.kind = "nat" -> 3

\* ws.cell(row=r, column=c, value=v): the value of a worksheet cell is set
\* unless v is None. A worksheet is a function from <<row, column>> to value.
cell(ws, r, c, v) == IF v.kind = "none" THEN ws ELSE (<<r, c>> :> v) @@ ws

\* The mutant of excel_row: the opening-balance row is not counted.
excel_row_off_by_one(idx) == idx + 2

\* excel_row = idx + 3, idx the 0-based index of the row
excel_row(idx) == idx + 3

\* The mutant of amount_written: a zero amount is written too.
amount_written_zero_too(v) == v.kind = "float" /\ v.num >= 0

\* row['Dr Amount'] > 0, row['Cr Amount'] > 0
amount_written(v) == gt0(v)

\* The header row and the opening-balance row.
sheet_head(initial) ==
    LET h == [rc \in {<<1, col>> : col \in 1..Len(headers)} |->
                 Text(headers[rc[2]])]
        w1 == cell(h, 2, 1, Text("Opening Balance"))
        w2 == cell(w1, 2, 2, Text("Opening Balance"))
        w3 == cell(w2, 2, 6, Float(initial))
    IN cell(w3, 2, 7, Text("Opening"))

\* The body of "for idx, row in df.iterrows()".
sheet_row(ws, idx, row) ==
    LET r == excel_row(idx)
        w1 == IF notna(row.Date) THEN cell(ws, r, 1, row.Date) ELSE ws
        w2 == cell(w1, r, 2, row.Particulars)
        w3 == IF notna(row.CF) THEN cell(w2, r, 3, row.CF) ELSE w2
        w4 == IF amount_written(row.Dr) THEN cell(w3, r, 4, row.Dr) ELSE w3
        w5 == IF amount_written(row.Cr) THEN cell(w4, r, 5, row.Cr) ELSE w4
        w6 == cell(w5, r, 6, row.Balance)
    IN cell(w6, r, 7, row.Type)

RECURSIVE sheet_rows(_, _, _)
\* rows i..len(df) of the table written below ws
sheet_rows(ws, table, i) ==
    IF i > Len(table) THEN ws
    ELSE sheet_rows(sheet_row(ws, i - 1, table[i]), table, i + 1)

max_row(ws) == Max({rc[1] : rc \in DOMAIN ws})
max_column(ws) == Max({rc[2] : rc \in DOMAIN ws})

\* cell.value of the cell at (r, c), None when it was never written
value(ws, r, c) == IF <<r, c>> \in DOMAIN ws THEN ws[<<r, c>>] ELSE None

\* "for column in ws.columns": every cell of rows 1..max_row is read
column_width(ws, c) ==
    LET max_length == Max({0} \cup {len_str(value(ws, r, c)) : r \in 1..max_row(ws)})
    IN Min2(max_length + 2, MaxWidth)

create_excel_download(table, initial) ==
    LET ws == sheet_rows(sheet_head(initial), table, 1)
    IN [cells |-> ws,
        width |-> [c \in 1..max_column(ws) |-> column_width(ws, c)]]

(***************************************************************************)
(* Direct calls of create_excel_download on every small annotated table.   *)
(***************************************************************************)
LongText == "Quarterly rent and maintenance paid to the landlord"

\* date, particulars and carried-forward reference of a row
Descriptions ==
    {<<Timestamp(1), Text("Rent"), NaN>>,
     <<NaT, Text(LongText), Text("ab")>>,
     <<Timestamp(2), Text("Fee"), Text("")>>}

SheetRows ==
    {[Date |-> d[1], Particulars |-> d[2], CF |-> d[3],
      Dr |-> Float(dr), Cr |-> Float(cr),
      Balance |-> Float(b), Type |-> Text(t)] :
        d \in Descriptions, dr \in {0, 200}, cr \in {0, 500}, b \in {0, 1300},
        t \in {"Dr", ""}}

InitExcel ==
    /\ Idle
    /\ df \in SeqsUpTo(SheetRows, MaxSheet)
    /\ bal \in Balances
    /\ out = <<>>
    /\ excel = <<>>
    /\ pc = "start"

Export ==
    /\ pc = "start"
    /\ excel' = create_excel_download(df, bal)
    /\ pc' = "done"
    /\ UNCHANGED <<ledger_data, initial_balance, message, handler, df, bal, out>>

NextExcel == Export

SpecExcel == InitExcel /\ [][NextExcel]_vars

(***************************************************************************)
(* Properties of create_excel_download (under SpecExcel).                  *)
(***************************************************************************)
Written(r, c) == <<r, c>> \in DOMAIN excel.cells

\* C7: N rows give exactly N + 2 content rows: row 1 the headers, row 2 the
\* opening-balance row (balance and "Opening" written, debit and credit
\* blank), and input row i (0-based) at sheet row i + 3, in input order.
C7_SheetLayout ==
    pc = "done" =>
        /\ max_row(excel.cells) = Len(df) + 2
        /\ \A r \in 1..(Len(df) + 2) : \E c \in 1..7 : Written(r, c)
        /\ \A c \in 1..7 : value(excel.cells, 1, c) = Text(headers[c])
        /\ value(excel.cells, 2, 6) = Float(bal)
        /\ value(excel.cells, 2, 7) = Text("Opening")
        /\ ~Written(2, 4) /\ ~Written(2, 5)
        /\ \A i \in 1..Len(df) :
               /\ value(excel.cells, i + 2, 2) = df[i].Particulars
               /\ value(excel.cells, i + 2, 6) = df[i].Balance
               /\ value(excel.cells, i + 2, 7) = df[i].Type

\* C7 witness: an empty table exported as two rows is one case; this is the
\* other: two different rows exported in input order below the two rows.
C7_Witness ==
    /\ pc = "done"
    /\ Len(df) = 2
    /\ df[1].Particulars # df[2].Particulars
    /\ df[1].Balance # df[2].Balance
    /\ max_row(excel.cells) = 4
    /\ value(excel.cells, 4, 2) = df[2].Particulars

\* C8: on every transaction row the debit cell is written iff debit > 0 and
\* the credit cell iff credit > 0; the balance and the type cell are always
\* written (balance 0 and the empty type label too); every written value is
\* the input row's value.
C8_RowCells ==
    pc = "done" =>
        \A i \in 1..Len(df) :
            LET r == i + 2
            IN /\ Written(r, 4) <=> df[i].Dr.num > 0
               /\ Written(r, 5) <=> df[i].Cr.num > 0
               /\ Written(r, 4) => excel.cells[<<r, 4>>] = df[i].Dr
               /\ Written(r, 5) => excel.cells[<<r, 5>>] = df[i].Cr
               /\ Written(r, 6) /\ excel.cells[<<r, 6>>] = df[i].Balance
               /\ Written(r, 7) /\ excel.cells[<<r, 7>>] = df[i].Type

\* C8 witness: a row with debit 0, credit 0, balance 0 and the empty type was
\* exported next to a row with a positive debit.
C8_Witness ==
    /\ pc = "done"
    /\ \E i \in 1..Len(df) :
           /\ df[i].Dr = Float(0) /\ df[i].Cr = Float(0)
           /\ df[i].Balance = Float(0) /\ df[i].Type = Text("")
           /\ ~Written(i + 2, 4) /\ ~Written(i + 2, 5)
           /\ excel.cells[<<i + 2, 6>>] = Float(0)
           /\ excel.cells[<<i + 2, 7>>] = Text("")
    /\ \E i \in 1..Len(df) : df[i].Dr = Float(200) /\ Written(i + 2, 4)

\* the longest text among the cells of column c that hold content
ContentLength(c) ==
    Max({0} \cup {len_str(excel.cells[rc]) :
                     rc \in {x \in DOMAIN excel.cells : x[2] = c}})

\* C9 (as stated): the width of each column is min(L + 2, 50), L the longest
\* text among the column's cells that hold content, header included; a cell
\* left blank counts 0.
C9_WidthFromContent ==
    pc = "done" =>
        \A c \in 1..7 : excel.width[c] = Min2(ContentLength(c) + 2, MaxWidth)

(***************************************************************************)
(* The session: the handlers of main(). One step is one script run.        *)
(***************************************************************************)
DefaultBalance == 304205

\* values the user types into the "Initial Balance" field
SessionBalances == {DefaultBalance, 1000, 2000}

\* DataFrame.empty
empty(table) == Len(table) = 0

\* The mutant of on_balance_change: the ledger is not recomputed.
on_balance_change_stale(ledger, new_initial_balance) == ledger

\* The sidebar: the ledger after the opening balance changed.
on_balance_change(ledger, new_initial_balance) ==
    IF ~empty(ledger)
    THEN calculate_balance_and_type(ledger, new_initial_balance)
    ELSE ledger

\* The spellings pd.to_datetime parses, among the texts of the model.
DateText == {"2024-01-02"}

\* pd.to_datetime(x, errors='coerce') on one cell
to_datetime(v) ==
    IF v.kind = "date" THEN v
    ELSE IF v.kind = "str" /\ v.str \in DateText THEN Timestamp(2)
    ELSE NaT

\* Series.astype(str) on one cell holding text or nothing
astype_str(v) == IF v.kind = "str" THEN v ELSE Text("nan")

\* processed_df: the uploaded table in the ledger's columns
standardize(rows, cf_col) ==
    [i \in 1..Len(rows) |->
        [Date |-> to_datetime(rows[i].date),
         Particulars |-> astype_str(rows[i].particulars),
         CF |-> IF cf_col THEN rows[i].cf ELSE Text(""),
         Dr |-> fillna(to_numeric(rows[i].dr), 0),
         Cr |-> fillna(to_numeric(rows[i].cr), 0)]]

\* The mutant of process_upload: the session ledger is assigned before the
\* balances are computed.
process_upload_store_first(ledger, initial, file, cf_col, fault) ==
    IF ~file.readable THEN [ledger |-> ledger, message |-> "error"]
    ELSE IF file.columns < 2 THEN [ledger |-> ledger, message |-> "error"]
    ELSE IF fault
    THEN [ledger |-> standardize(file.rows, cf_col), message |-> "error"]
    ELSE [ledger |-> calculate_balance_and_type(
                         standardize(file.rows, cf_col), initial),
          message |-> "success"]

\* The "Upload Data" tab with "Process Data" pressed: the session ledger and
\* the message after the try block. Reading an unreadable file raises, the
\* column mapping of a one-column table raises, and fault is an exception
\* raised while the table is processed; the ledger is assigned last.
process_upload(ledger, initial, file, cf_col, fault) ==
    IF ~file.readable THEN [ledger |-> ledger, message |-> "error"]
    ELSE IF file.columns < 2 THEN [ledger |-> ledger, message |-> "error"]
    ELSE IF fault THEN [ledger |-> ledger, message |-> "error"]
    ELSE [ledger |-> calculate_balance_and_type(
                         standardize(file.rows, cf_col), initial),
          message |-> "success"]

\* new_transaction of the manual entry form
new_transaction(entry_date, particulars, cf_entry, transaction_type, amount) ==
    [Date |-> Timestamp(entry_date),
     Particulars |-> Text(particulars),
     CF |-> Text(cf_entry),
     Dr |-> Float(IF transaction_type = "Debit" THEN amount ELSE 0),
     Cr |-> Float(IF transaction_type = "Credit" THEN amount ELSE 0)]

\* pd.concat([ledger, pd.DataFrame([row])], ignore_index=True): the new row
\* has no balance and no type yet
concat(ledger, row) ==
    Append(ledger, [Date |-> row.Date, Particulars |-> row.Particulars,
                    CF |-> row.CF, Dr |-> row.Dr, Cr |-> row.Cr,
                    Balance |-> NaN, Type |-> NaN])

\* The mutant of add_transaction: the ledger is not recomputed after the
\* row is added.
add_transaction_no_recalc(ledger, initial, row) ==
    IF empty(ledger) THEN concat(<<>>, row) ELSE concat(ledger, row)

\* The "Manual Entry" tab with a valid form: the ledger after the row is
\* added and the balances are recomputed.
add_transaction(ledger, initial, row) ==
    calculate_balance_and_type(
        IF empty(ledger) THEN <<row>> ELSE concat(ledger, row), initial)

\* Rows of an uploaded file, after the column mapping.
UploadRows ==
    {[date |-> Text("2024-01-02"), particulars |-> Text("Sales"),
      cf |-> NaN, dr |-> Float(-200), cr |-> Float(500)],
     [date |-> Text("n/a"), particulars |-> Text("Rent"),
      cf |-> Text("ab"), dr |-> Text("200"), cr |-> Text("abc")],
     [date |-> Timestamp(1), particulars |-> NaN,
      cf |-> NaN, dr |-> Float(200), cr |-> Float(500)]}

Files ==
    {[readable |-> FALSE, columns |-> 0, rows |-> <<>>],
     [readable |-> TRUE, columns |-> 1, rows |-> <<>>]}
    \cup {[readable |-> TRUE, columns |-> 5, rows |-> t] :
             t \in SeqsUpTo(UploadRows, MaxUpload)}

NoCall ==
    /\ df = <<>>
    /\ bal = 0
    /\ out = <<>>
    /\ excel = <<>>
    /\ pc = "none"

Init ==
    /\ ledger_data = <<>>
    /\ initial_balance = DefaultBalance
    /\ message = ""
    /\ handler = "none"
    /\ NoCall

ChangeInitialBalance(new_initial_balance) ==
    /\ new_initial_balance # initial_balance
    /\ initial_balance' = new_initial_balance
    /\ ledger_data' = on_balance_change(ledger_data, new_initial_balance)
    /\ message' = ""
    /\ handler' = "balance"
    /\ UNCHANGED <<df, bal, out, excel, pc>>

ProcessData(file, cf_col, fault) ==
    LET r == process_upload(ledger_data, initial_balance, file, cf_col, fault)
    IN /\ ledger_data' = r.ledger
       /\ message' = r.message
       /\ handler' = "upload"
       /\ UNCHANGED <<initial_balance, df, bal, out, excel, pc>>

AddTransaction(entry_date, particulars, cf_entry, transaction_type, amount) ==
    /\ Len(ledger_data) < MaxLedger
    /\ IF particulars # "" /\ amount > 0
       THEN /\ ledger_data' =
                   add_transaction(ledger_data, initial_balance,
                       new_transaction(entry_date, particulars, cf_entry,
                                       transaction_type, amount))
            /\ message' = "success"
       ELSE /\ ledger_data' = ledger_data
            /\ message' = "error"
    /\ handler' = "manual"
    /\ UNCHANGED <<initial_balance, df, bal, out, excel, pc>>

ClearAllData ==
    /\ ~empty(ledger_data)
    /\ ledger_data' = <<>>
    /\ message' = "success"
    /\ handler' = "clear"
    /\ UNCHANGED <<initial_balance, df, bal, out, excel, pc>>

Next ==
    \/ \E b \in SessionBalances : ChangeInitialBalance(b)
    \/ \E f \in Files, c \in BOOLEAN, x \in BOOLEAN : ProcessData(f, c, x)
    \/ \E p \in {"", "Rent"}, t \in {"Debit", "Credit"}, a \in {0, 200} :
           AddTransaction(3, p, "", t, a)
    \/ ClearAllData

Spec == Init /\ [][Next]_vars

(***************************************************************************)
(* Properties of the session (under Spec).                                 *)
(***************************************************************************)
\* C4: after every action the balance and the type stored on every row of
\* the session ledger are those of a recomputation from the first row with
\* the session's current opening balance.
C4_LedgerIsCurrent ==
    \A i \in 1..Len(ledger_data) :
        LET prev == PrevBalance(ledger_data, initial_balance, i)
            dr == ledger_data[i].Dr.num
            cr == ledger_data[i].Cr.num
        IN /\ ledger_data[i].Balance =
                  Float(IF dr > 0 THEN prev - dr
                        ELSE IF cr > 0 THEN prev + cr
                        ELSE prev)
           /\ ledger_data[i].Type =
                  Text(IF dr > 0 THEN "Dr" ELSE IF cr > 0 THEN "Cr" ELSE "")

\* C4 witness: an uploaded table, then a manual row, then a change of the
\* opening balance: three rows, the last one manual, under a new balance.
C4_Witness ==
    /\ handler = "balance"
    /\ initial_balance = 1000
    /\ Len(ledger_data) = 3
    /\ ledger_data[1].Particulars = Text("Sales")
    /\ ledger_data[3].Particulars = Text("Rent")
    /\ ledger_data[3].Date = Timestamp(3)

C6_FailedUploadKeepsLedger ==
    [][handler' = "upload" =>
          /\ message' \in {"error", "success"}
          /\ initial_balance' = initial_balance
          /\ (message' = "error") => (ledger_data' = ledger_data)
          /\ (ledger_data' # ledger_data) =>
                 /\ message' = "success"
                 /\ \A i \in 1..Len(ledger_data') :
                        /\ ledger_data'[i].Balance.kind = "float"
                        /\ ledger_data'[i].Type.kind = "str"]_vars

\* C6 witness: an upload ended in an error while the session held a ledger.
C6_Witness ==
    /\ handler = "upload"
    /\ message = "error"
    /\ Len(ledger_data) >= 2

====
